---- MODULE Spec2Model ----
(***************************************************************************)
(* Model of the award tools of usa_spending_mcp_server                     *)
(* (tools/award_spending.py): one invocation of search_spending_by_award   *)
(* (the pagination aggregator) or of get_award_details (the bounded        *)
(* fan-out), against an upstream server that may answer every request in   *)
(* any way (any page content, any page_metadata, or a transport failure).  *)
(*                                                                         *)
(* Python strings that the code parses are tuples of one-character         *)
(* strings, so that split / strip / lower / int / str are computed.        *)
(* A step of the model is what asyncio runs between two awaits.            *)
(***************************************************************************)
EXTENDS Integers, Sequences, FiniteSets, TLC

\* ------------------------------------------------------------------ bounds

\* Largest max_pages value drawn for search_spending_by_award.
MaxPagesArg == 3

\* Largest starting page drawn for search_spending_by_award.
MaxStartPage == 2

\* Largest number of award IDs drawn for the fan-out of get_award_details
\* (one input of MaxAwards + 1 IDs is drawn besides).
MaxFanIds == 3

\* ------------------------------------------------------- program constants

\* "Maximum 10 awards allowed per request".
MaxAwards == 10

\* BasePagination.limit: le=100.
MaxLimit == 100

\* ------------------------------------------------------- python primitives

DigitChars == <<"0", "1", "2", "3", "4", "5", "6", "7", "8", "9">>

UpperChars == <<"A", "B", "C", "D", "E", "F", "G", "H", "I", "J", "K", "L", "M",
                "N", "O", "P", "Q", "R", "S", "T", "U", "V", "W", "X", "Y", "Z">>

LowerChars == <<"a", "b", "c", "d", "e", "f", "g", "h", "i", "j", "k", "l", "m",
                "n", "o", "p", "q", "r", "s", "t", "u", "v", "w", "x", "y", "z">>

IsDigit(c) == \E i \in 1..Len(DigitChars) : DigitChars[i] = c

DigitVal(c) == (CHOOSE i \in 1..Len(DigitChars) : DigitChars[i] = c) - 1

\* str.lower(), one character.
LowerChar(c) ==
    IF \E i \in 1..Len(UpperChars) : UpperChars[i] = c
    THEN LowerChars[CHOOSE i \in 1..Len(UpperChars) : UpperChars[i] = c]
    ELSE c

\* str.lower()
lower(s) == [i \in 1..Len(s) |-> LowerChar(s[i])]

RECURSIVE lstrip(_)
lstrip(s) ==
    IF s # <<>> /\ Head(s) = " " THEN lstrip(Tail(s)) ELSE s

RECURSIVE rstrip(_)
rstrip(s) ==
    IF s # <<>> /\ s[Len(s)] = " " THEN rstrip(SubSeq(s, 1, Len(s) - 1)) ELSE s

\* str.strip()
strip(s) == rstrip(lstrip(s))

\* str.split(sep): the pieces between the separators, empty pieces kept;
\* "".split(",") is [""].
RECURSIVE SplitFrom(_, _, _)
SplitFrom(s, sep, cur) ==
    IF s = <<>> THEN <<cur>>
    ELSE IF Head(s) = sep THEN <<cur>> \o SplitFrom(Tail(s), sep, <<>>)
    ELSE SplitFrom(Tail(s), sep, Append(cur, Head(s)))

split(s, sep) == SplitFrom(s, sep, <<>>)

RECURSIVE DigitsValue(_)
DigitsValue(s) ==
    IF s = <<>> THEN 0
    ELSE DigitsValue(SubSeq(s, 1, Len(s) - 1)) * 10 + DigitVal(s[Len(s)])

\* int(s): surrounding blanks stripped, an optional sign, then one or more
\* digits; anything else raises ValueError (ok = FALSE).
int(s) ==
    LET t    == strip(s)
        sgn  == t # <<>> /\ Head(t) \in {"-", "+"}
        body == IF sgn THEN Tail(t) ELSE t
        good == body # <<>> /\ \A i \in 1..Len(body) : IsDigit(body[i])
    IN  IF ~good THEN [ok |-> FALSE, val |-> 0]
        ELSE [ok |-> TRUE,
              val |-> IF sgn /\ Head(t) = "-" THEN 0 - DigitsValue(body)
                      ELSE DigitsValue(body)]

RECURSIVE NatStr(_)
NatStr(n) ==
    IF n < 10 THEN <<DigitChars[n + 1]>>
    ELSE NatStr(n \div 10) \o <<DigitChars[(n % 10) + 1]>>

\* str(n)
str(n) == IF n < 0 THEN <<"-">> \o NatStr(0 - n) ELSE NatStr(n)

\* ------------------------------------------------------------ request model

\* AwardTypeCode: the closed enumeration of award type codes.
AwardTypeCode ==
    {<<"A">>, <<"B">>, <<"C">>, <<"D">>, <<"0", "2">>, <<"0", "3">>,
     <<"0", "4">>, <<"0", "5">>, <<"0", "6">>, <<"1", "0">>, <<"0", "7">>,
     <<"0", "8">>, <<"0", "9">>, <<"1", "1">>, <<"-", "1">>, <<"I", "D", "V">>}

\* SortOrder
SortOrder == {"asc", "desc"}

BasePaginationOkNoUpperLimit(page_int, limit_int) ==
    page_int >= 1 /\ limit_int >= 1

\* BasePagination(page=..., limit=...): page ge=1, limit ge=1 le=100.
BasePaginationOk(page_int, limit_int) ==
    page_int >= 1 /\ limit_int >= 1 /\ limit_int <= MaxLimit

\* [code.strip() for code in award_type_codes.split(",")]
award_types(award_type_codes) ==
    LET parts == split(award_type_codes, ",")
    IN  [i \in 1..Len(parts) |-> strip(parts[i])]

\* Python's None, and a value that is not None.  A dict is a function from
\* its keys to such values, so that a key may be absent, present with None,
\* or present with a value.
None == [some |-> FALSE, val |-> <<>>]

Some(x) == [some |-> TRUE, val |-> x]

\* `if x:` for an optional string: neither None nor "".
Truthy(o) == o.some /\ o.val # <<>>

\* c in s
contains(s, c) == \E i \in 1..Len(s) : s[i] = c

\* s.split(sep, 1): split at the first separator only.
split1(s, sep) ==
    IF ~contains(s, sep) THEN <<s>>
    ELSE LET i == CHOOSE j \in 1..Len(s) :
                     s[j] = sep /\ \A k \in 1..(j - 1) : s[k] # sep
         IN  <<SubSeq(s, 1, i - 1), SubSeq(s, i + 1, Len(s))>>

\* [x.strip() for x in s.split(",")]: empty pieces are kept.
comma_list(s) ==
    LET parts == split(s, ",")
    IN  [i \in 1..Len(parts) |-> strip(parts[i])]

\* A finite float: num / 10^frac, with no trailing zero in the fraction.
RECURSIVE Finite(_, _)
Finite(num, frac) ==
    IF frac > 0 /\ num % 10 = 0 THEN Finite(num \div 10, frac - 1)
    ELSE [kind |-> "finite", num |-> num, frac |-> frac]

\* float(s): surrounding blanks stripped, an optional sign, then digits with
\* an optional fraction (at least one digit), or inf / infinity / nan in any
\* case; anything else raises ValueError (ok = FALSE).  Exponents and digit
\* separators, which float() also accepts, are not among the texts drawn.
isdigit_chars(digs) == \A i \in 1..Len(digs) : IsDigit(digs[i])

float_digits(ip, fp, neg) ==
    IF ip \o fp # <<>> /\ isdigit_chars(ip \o fp)
    THEN [ok |-> TRUE,
          val |-> Finite(IF neg THEN 0 - DigitsValue(ip \o fp) ELSE DigitsValue(ip \o fp),
                         Len(fp))]
    ELSE [ok |-> FALSE, val |-> [kind |-> "nan", num |-> 0, frac |-> 0]]

float_parts(parts, neg) ==
    float_digits(parts[1], IF Len(parts) = 2 THEN parts[2] ELSE <<>>, neg)

float_word(body, word, neg) ==
    IF word \in {<<"i", "n", "f">>, <<"i", "n", "f", "i", "n", "i", "t", "y">>}
    THEN [ok |-> TRUE,
          val |-> [kind |-> IF neg THEN "-inf" ELSE "inf", num |-> 0, frac |-> 0]]
    ELSE IF word = <<"n", "a", "n">>
    THEN [ok |-> TRUE, val |-> [kind |-> "nan", num |-> 0, frac |-> 0]]
    ELSE float_parts(split1(body, "."), neg)

float_signed(t) ==
    IF t # <<>> /\ Head(t) \in {"-", "+"}
    THEN float_word(Tail(t), lower(Tail(t)), Head(t) = "-")
    ELSE float_word(t, lower(t), FALSE)

float(s) == float_signed(strip(s))

\* AgencyType
AgencyType == {<<"a", "w", "a", "r", "d", "i", "n", "g">>, <<"f", "u", "n", "d", "i", "n", "g">>}

\* AgencyTier
AgencyTier == {<<"t", "o", "p", "t", "i", "e", "r">>, <<"s", "u", "b", "t", "i", "e", "r">>}

\* Agency(name=..., type=..., tier=..., top_tier_name=...), with the defaults
\* type = awarding, tier = toptier, top_tier_name = None.
Agency(name, type, tier, top_tier_name) ==
    [name |-> Some(name), type |-> Some(type), tier |-> Some(tier),
     top_tier_name |-> top_tier_name]

AGENCY_AWARDING == <<"a", "w", "a", "r", "d", "i", "n", "g">>

AGENCY_TOPTIER == <<"t", "o", "p", "t", "i", "e", "r">>

NoAgency == Agency(<<>>, AGENCY_AWARDING, AGENCY_TOPTIER, None)

parsed_agency(agency) == [ok |-> TRUE, exc |-> "", agency |-> agency]

\* AgencyType(...) or AgencyTier(...) raised ValueError.
agency_value_error == [ok |-> FALSE, exc |-> "ValueError", agency |-> NoAgency]

agency_from_parts_rejects_fallback(s, parts) ==
    IF ~contains(s, ":") THEN parsed_agency(Agency(s, AGENCY_AWARDING, AGENCY_TOPTIER, None))
    ELSE IF Len(parts) = 2
    THEN IF parts[1] \in AgencyType
         THEN parsed_agency(Agency(parts[2], parts[1], AGENCY_TOPTIER, None))
         ELSE agency_value_error
    ELSE IF Len(parts) = 3
    THEN IF parts[1] \in AgencyTier
         THEN parsed_agency(Agency(parts[3], AGENCY_AWARDING, parts[1], Some(parts[2])))
         ELSE agency_value_error
    ELSE IF Len(parts) = 4
    THEN IF parts[1] \in AgencyType /\ parts[2] \in AgencyTier
         THEN parsed_agency(Agency(parts[4], parts[1], parts[2], Some(parts[3])))
         ELSE agency_value_error
    ELSE agency_value_error

\* The branches of Agency.parse_agency_string on agency_str.strip() and its
\* split(":").
agency_from_parts(s, parts) ==
    IF ~contains(s, ":") THEN parsed_agency(Agency(s, AGENCY_AWARDING, AGENCY_TOPTIER, None))
    ELSE IF Len(parts) = 2
    THEN IF parts[1] \in AgencyType
         THEN parsed_agency(Agency(parts[2], parts[1], AGENCY_TOPTIER, None))
         ELSE agency_value_error
    ELSE IF Len(parts) = 3
    THEN IF parts[1] \in AgencyTier
         THEN parsed_agency(Agency(parts[3], AGENCY_AWARDING, parts[1], Some(parts[2])))
         ELSE agency_value_error
    ELSE IF Len(parts) = 4
    THEN IF parts[1] \in AgencyType /\ parts[2] \in AgencyTier
         THEN parsed_agency(Agency(parts[4], parts[1], parts[2], Some(parts[3])))
         ELSE agency_value_error
    ELSE parsed_agency(Agency(s, AGENCY_AWARDING, AGENCY_TOPTIER, None))

\* Agency.parse_agency_string
parse_agency_string(agency_str) ==
    agency_from_parts(strip(agency_str), split(strip(agency_str), ":"))

\* ProgramActivityObject from one entry: name, *code = entry.split("|");
\* name.strip() if name else None; code[0].strip() if code else None, where
\* `code` is the list of the pieces after the first.
program_activity(entry) ==
    LET parts == split(entry, "|")
        name  == Head(parts)
        code  == Tail(parts)
    IN  [name |-> IF name # <<>> THEN Some(strip(name)) ELSE None,
         code |-> IF code # <<>> THEN Some(strip(code[1])) ELSE None]

\* The program_activities list of from_params.
program_activity_list(program_activities) ==
    LET entries == split(program_activities, ";")
    IN  [i \in 1..Len(entries) |-> program_activity(entries[i])]

some_float(f) == [ok |-> f.ok, val |-> IF f.ok THEN Some(f.val) ELSE None]

\* float(x) if x else None, for one side of a range: ok = FALSE when float
\* raises.
bound(text) ==
    IF text = <<>> THEN [ok |-> TRUE, val |-> None]
    ELSE some_float(float(text))

AwardAmount_swapped(lower_bound, upper_bound) ==
    [skip |-> FALSE, ok |-> lower_bound.ok /\ upper_bound.ok,
     val |-> [lower_bound |-> upper_bound.val, upper_bound |-> lower_bound.val]]

\* AwardAmount(lower_bound=..., upper_bound=...) of the two sides.
AwardAmount(lower_bound, upper_bound) ==
    [skip |-> FALSE, ok |-> lower_bound.ok /\ upper_bound.ok,
     val |-> [lower_bound |-> lower_bound.val, upper_bound |-> upper_bound.val]]

range_of_parts(parts) == AwardAmount(bound(parts[1]), bound(parts[2]))

\* One token of award_amounts: skipped without a "-", else split at the first
\* "-" and each non-empty side converted by float.
amount_range(token) ==
    IF ~contains(strip(token), "-")
    THEN [skip |-> TRUE, ok |-> TRUE, val |-> [lower_bound |-> None, upper_bound |-> None]]
    ELSE range_of_parts(split1(strip(token), "-"))

RECURSIVE Ranges(_)
Ranges(parsed) ==
    IF parsed = <<>> THEN <<>>
    ELSE (IF Head(parsed).skip THEN <<>> ELSE <<Head(parsed).val>>) \o Ranges(Tail(parsed))

\* The list a comprehension builds, ok = FALSE when an element raised.
collected(parsed) == [ok |-> \A i \in 1..Len(parsed) : parsed[i].ok, val |-> Ranges(parsed)]

amount_ranges(tokens) == collected([i \in 1..Len(tokens) |-> amount_range(tokens[i])])

\* The award_amounts list of from_params: ok = FALSE when a float() raises.
award_amount_list(award_amounts) == amount_ranges(split(award_amounts, ";"))

parsed_agencies(parsed) ==
    [ok |-> \A i \in 1..Len(parsed) : parsed[i].ok,
     val |-> [i \in 1..Len(parsed) |-> parsed[i].agency]]

agencies_of(strs) == parsed_agencies([i \in 1..Len(strs) |-> parse_agency_string(strs[i])])

\* The agency_objects list of from_params.
agency_objects(agencies) == agencies_of(split(agencies, ","))

\* str(subawards).lower() in ("true", "1", "yes", "on")
string_to_bool(x) ==
    lower(x) \in {<<"t", "r", "u", "e">>, <<"1">>, <<"y", "e", "s">>, <<"o", "n">>}

\* The default of AwardSearchRequest.fields.
DefaultFields ==
    <<<<"A", "w", "a", "r", "d", " ", "I", "D">>,
      <<"R", "e", "c", "i", "p", "i", "e", "n", "t", " ", "N", "a", "m", "e">>,
      <<"S", "t", "a", "r", "t", " ", "D", "a", "t", "e">>,
      <<"E", "n", "d", " ", "D", "a", "t", "e">>,
      <<"A", "w", "a", "r", "d", " ", "A", "m", "o", "u", "n", "t">>,
      <<"A", "w", "a", "r", "d", "i", "n", "g", " ", "A", "g", "e", "n", "c", "y">>,
      <<"A", "w", "a", "r", "d", "i", "n", "g", " ", "S", "u", "b", " ", "A", "g", "e", "n", "c", "y">>,
      <<"A", "w", "a", "r", "d", " ", "T", "y", "p", "e">>>>

\* The default TimePeriod of from_params, as tp.dict() gives it.
DefaultTimePeriod ==
    [start_date |-> Some("2023-10-01"), end_date |-> Some("2024-09-30")]

\* an optional comma-separated parameter: None unless the string is truthy.
optional_list(o) == IF Truthy(o) THEN Some(comma_list(o.val)) ELSE None

\* `if x:` for an optional list: neither None nor [].
TruthyList(o) == o.some /\ o.val # <<>>

request_error(exc) == [ok |-> FALSE, exc |-> exc]

\* cls(filters=AwardSearchFilters(...), pagination=BasePagination(...), ...)
\* of from_params, from the values it parsed.
AwardSearchRequest(p, page_int, limit_int, types, agencyobjs, amounts, field_list) ==
    IF p.order \notin SortOrder THEN request_error("ValueError")
    ELSE IF ~BasePaginationOk(page_int, limit_int) THEN request_error("ValidationError")
    ELSE [ok |-> TRUE, exc |-> "",
          subawards |-> string_to_bool(p.subawards),
          page |-> page_int,
          limit |-> limit_int,
          order |-> p.order,
          sort |-> p.sort,
          fields |-> IF TruthyList(field_list) THEN field_list.val ELSE DefaultFields,
          filters |->
            [time_period |-> <<DefaultTimePeriod>>,
             award_type_codes |-> types,
             agencies |-> IF agencyobjs # <<>> THEN Some(agencyobjs) ELSE None,
             recipient_search_text |-> optional_list(p.recipients),
             award_ids |-> optional_list(p.award_ids),
             keywords |-> optional_list(p.keywords),
             award_amounts |-> IF Truthy(p.award_amounts) THEN Some(amounts) ELSE None,
             program_activities |-> IF Truthy(p.program_activities)
                                    THEN Some(program_activity_list(p.program_activities.val))
                                    ELSE None]]

\* The conversions of from_params in the order of the code: the first that
\* raises decides the exception.
converted(p, page_int, limit_int, types, agencyobjs, amounts) ==
    IF ~page_int.ok \/ ~limit_int.ok THEN request_error("ValueError")
    ELSE IF \E i \in 1..Len(types) : types[i] \notin AwardTypeCode
    THEN request_error("ValueError")
    ELSE IF ~agencyobjs.ok THEN request_error("ValueError")
    ELSE IF ~amounts.ok THEN request_error("ValueError")
    ELSE AwardSearchRequest(p, page_int.val, limit_int.val, types, agencyobjs.val,
                            amounts.val, optional_list(p.fields))

\* AwardSearchRequest.from_params, with p the record of its parameters (the
\* dates are at their valid defaults); ok = FALSE when it raises.
AwardSearchRequest_from_params(p) ==
    converted(p, int(p.page), int(p.limit), award_types(p.award_type_codes),
              IF Truthy(p.agencies) THEN agency_objects(p.agencies.val)
              ELSE [ok |-> TRUE, val |-> <<>>],
              IF Truthy(p.award_amounts) THEN award_amount_list(p.award_amounts.val)
              ELSE [ok |-> TRUE, val |-> <<>>])

\* {k: v for k, v in d.items() if v is not None}; also
\* model_dump(exclude_none=True).
drop_none(d) == [k \in {j \in DOMAIN d : d[j].some} |-> d[k]]

\* amount.dict(), pa.dict(): every field, None included.
dict(d) == d

agency_dump_without_top_tier(agency) ==
    [k \in {"name", "type", "tier"} |-> agency[k]]

\* agency.model_dump(exclude_none=True)
agency_dump(agency) == drop_none(agency)

\* The keys of payload["filters"] that to_api_payload sets, before the None
\* values are removed.
filter_keys(f) ==
    {"time_period", "award_type_codes"}
    \cup (IF TruthyList(f.agencies) THEN {"agencies"} ELSE {})
    \cup (IF TruthyList(f.recipient_search_text) THEN {"recipient_search_text"} ELSE {})
    \cup (IF TruthyList(f.award_ids) THEN {"award_ids"} ELSE {})
    \cup (IF TruthyList(f.keywords) THEN {"keywords"} ELSE {})
    \cup (IF TruthyList(f.award_amounts) THEN {"award_amounts"} ELSE {})
    \cup (IF TruthyList(f.program_activities) THEN {"program_activities"} ELSE {})

\* payload["filters"] of to_api_payload, with its None values removed:
\* agencies are dumped with exclude_none, award amounts and program
\* activities with .dict().
filters_payload(f) ==
    drop_none(
      [k \in filter_keys(f) |->
         CASE k = "time_period" -> Some(f.time_period)
           [] k = "award_type_codes" ->
                 IF f.award_type_codes # <<>> THEN Some(f.award_type_codes) ELSE None
           [] k = "agencies" ->
                 Some([i \in 1..Len(f.agencies.val) |-> agency_dump(f.agencies.val[i])])
           [] k = "recipient_search_text" -> f.recipient_search_text
           [] k = "award_ids" -> f.award_ids
           [] k = "keywords" -> f.keywords
           [] k = "award_amounts" ->
                 Some([i \in 1..Len(f.award_amounts.val) |-> dict(f.award_amounts.val[i])])
           [] k = "program_activities" ->
                 Some([i \in 1..Len(f.program_activities.val) |->
                         dict(f.program_activities.val[i])])])

\* AwardSearchRequest.to_api_payload
to_api_payload(request) ==
    drop_none(
      [k \in {"subawards", "page", "limit", "order", "fields", "filters"}
             \cup (IF Truthy(request.sort) THEN {"sort"} ELSE {}) |->
         CASE k = "subawards" -> Some(request.subawards)
           [] k = "page" -> Some(request.page)
           [] k = "limit" -> Some(request.limit)
           [] k = "order" -> Some(request.order)
           [] k = "fields" -> Some(request.fields)
           [] k = "filters" -> Some(filters_payload(request.filters))
           [] k = "sort" -> request.sort])

\* The parameters search_spending_by_award leaves at None when not given.
DefaultParams ==
    [award_type_codes |-> <<"A">>, agencies |-> None, program_activities |-> None,
     recipients |-> None, award_ids |-> None, keywords |-> None,
     award_amounts |-> None, fields |-> None,
     subawards |-> <<"F", "a", "l", "s", "e">>, page |-> <<"1">>,
     limit |-> <<"1", "0", "0">>, sort |-> None, order |-> "desc"]

\* The keyword arguments search_spending_by_award passes to from_params, for
\* its own arguments `a` and the page string `page`: every parameter is
\* handed on (lines 78-94), the optional filters here not given.
search_params(a, page) ==
    [DefaultParams EXCEPT !.award_type_codes = a.award_type_codes,
                          !.page = page, !.limit = a.limit,
                          !.sort = a.sort, !.order = a.order]

next_request_params_drops_sort(a, cur) ==
    [search_params(a, str(cur)) EXCEPT !.sort = None]

\* The keyword arguments of the request for page `cur` built in the loop
\* (lines 117-133): the same with page=str(current_page).
next_request_params(a, cur) == search_params(a, str(cur))

\* --------------------------------------------------------------- responses

\* A page_metadata dict: its boolean-valued and its integer-valued keys.
EmptyDict == [bools |-> [k \in {} |-> FALSE], ints |-> [k \in {} |-> 0]]

MetaWith(b) == [bools |-> [k \in {"hasNext"} |-> b], ints |-> [k \in {} |-> 0]]

\* The result lists a page may carry.
PageContents == {<<>>, <<1>>, <<2, 1>>}

\* What the upstream may answer to a POST: any page content, with no
\* page_metadata key, with a page_metadata without hasNext, or with hasNext.
ServerResponses ==
    {[results |-> r, hasMeta |-> m[1], meta |-> m[2]] :
        r \in PageContents,
        m \in {<<FALSE, EmptyDict>>, <<TRUE, EmptyDict>>,
               <<TRUE, MetaWith(TRUE)>>, <<TRUE, MetaWith(FALSE)>>}}

NoResponse == [results |-> <<>>, hasMeta |-> FALSE, meta |-> EmptyDict]

\* response.get("page_metadata", {}).get("hasNext", False)
hasNext(response) ==
    /\ response.hasMeta
    /\ "hasNext" \in DOMAIN response.meta.bools
    /\ response.meta.bools["hasNext"]

\* Code the handler runs on a successful page: the loop test of
\* lines 109-112, hasNext of the last response and the page cap.
LoopContinuesOffByOne(response, cur, maxp) ==
    hasNext(response) /\ cur <= maxp

LoopContinuesIgnoringHasNext(response, cur, maxp) ==
    cur < maxp

LoopContinuesStopsEarly(response, cur, maxp) ==
    hasNext(response) /\ cur + 1 < maxp

LoopContinues(response, cur, maxp) ==
    hasNext(response) /\ cur < maxp

extendPrepends(all, more) == more \o all

\* all_results.extend(next_response.get("results", []))
extend(all, more) == all \o more

\* final_response["page_metadata"]["total_results_fetched"] = len(all_results)
\* final_response["page_metadata"]["pages_fetched"] = current_page
augmented(meta, all, cur) ==
    [bools |-> meta.bools,
     ints  |-> [k \in DOMAIN meta.ints \cup {"total_results_fetched", "pages_fetched"} |->
                  IF k = "total_results_fetched" THEN Len(all)
                  ELSE IF k = "pages_fetched" THEN cur
                  ELSE meta.ints[k]]]

\* The texts the error results start with (what follows is the text of the
\* exception or the award ID).
SEARCH_ERROR ==
    <<"E", "r", "r", "o", "r", " ", "s", "e", "a", "r", "c", "h",
      "i", "n", "g", " ", "s", "p", "e", "n", "d", "i", "n", "g",
      " ", "b", "y", " ", "a", "w", "a", "r", "d", ":", " ">>

NO_VALID_IDS ==
    <<"E", "r", "r", "o", "r", ":", " ", "N", "o", " ", "v", "a",
      "l", "i", "d", " ", "a", "w", "a", "r", "d", " ", "I", "D",
      "s", " ", "p", "r", "o", "v", "i", "d", "e", "d">>

TOO_MANY_IDS ==
    <<"E", "r", "r", "o", "r", ":", " ", "M", "a", "x", "i", "m",
      "u", "m", " ", "1", "0", " ", "a", "w", "a", "r", "d", "s",
      " ", "a", "l", "l", "o", "w", "e", "d", " ", "p", "e", "r",
      " ", "r", "e", "q", "u", "e", "s", "t">>

DETAILS_REQUEST_ERROR ==
    <<"E", "r", "r", "o", "r", " ", "p", "r", "o", "c", "e", "s",
      "s", "i", "n", "g", " ", "a", "w", "a", "r", "d", " ", "d",
      "e", "t", "a", "i", "l", "s", " ", "r", "e", "q", "u", "e",
      "s", "t", ":", " ">>

SINGLE_GET_ERROR ==
    <<"E", "r", "r", "o", "r", " ", "g", "e", "t", "t", "i", "n",
      "g", " ", "a", "w", "a", "r", "d", " ", "d", "e", "t", "a",
      "i", "l", "s", " ", "f", "o", "r", " ">>

\* return f"Error searching spending by award: {str(e)}"
search_error(exc) ==
    [kind |-> "error", msg |-> SEARCH_ERROR, exc |-> exc]

\* --------------------------------------------------------------- the inputs

\* Python strings for the numbers 0..n, and one that is no number.
NumberStrings(n) == {str(k) : k \in 0..n} \cup {<<"x">>}

SearchArgs ==
    [award_type_codes : {<<"A", ",", "B">>, <<"Z">>},
     page             : NumberStrings(MaxStartPage),
     limit            : {str(0), str(MaxLimit), str(MaxLimit + 1)},
     sort             : {None, Some(<<"A", "w", "a", "r", "d", " ", "A", "m", "o", "u", "n", "t">>)},
     order            : {"desc", "up"},
     fetch_all_pages  : {<<"T", "r", "u", "e">>, <<"y", "e", "s">>,
                         <<"F", "a", "l", "s", "e">>},
     max_pages        : NumberStrings(MaxPagesArg)]

IdChars == <<"a", "b", "c", "d", "e", "f", "g", "h", "i", "j", "k">>

\* The first n award IDs.
FirstIds(n) == [i \in 1..n |-> <<IdChars[i]>>]

RECURSIVE Join(_)
Join(tokens) ==
    IF tokens = <<>> THEN <<>>
    ELSE IF Len(tokens) = 1 THEN tokens[1]
    ELSE tokens[1] \o <<",">> \o Join(Tail(tokens))

\* award_id strings: 0..MaxFanIds distinct IDs, the same with the first ID
\* repeated at the end, with blanks and empty tokens, and MaxAwards + 1 IDs.
AwardIdStrings ==
    {Join(FirstIds(n)) : n \in 0..MaxFanIds}
    \cup {Join(Append(FirstIds(n), <<"a">>)) : n \in 1..(MaxFanIds - 1)}
    \cup {Join(<<<<" ", "a", " ">>, <<" ">>, <<>>>> \o Tail(FirstIds(n))) : n \in 1..MaxFanIds}
    \cup {Join(FirstIds(MaxAwards + 1))}

DetailsArgs ==
    [award_id : AwardIdStrings, max_concurrent : {0 - 1, 0, 1, 2, MaxAwards}]

\* Payloads the upstream may answer to GET awards/<id>/.
DetailPayloads == {"d1", "d2"}

\* ------------------------------------------------------------------- state

VARIABLES
    tool,            \* the operation invoked: "search", "details", or a request builder
    args,            \* its arguments
    pc,              \* where the invocation is suspended
    ret,             \* what it returned
    inflight,        \* the HTTP requests issued and not yet answered
    posts,           \* the POST payloads issued, in order
    received,        \* the answers to them, in order
    response,        \* search: the last response
    all_results,     \* search: the accumulated results
    current_page,    \* search
    max_pages_int,   \* search
    gets,            \* details: the award IDs of the GETs issued, in order
    award_ids,       \* details: the parsed IDs
    semaphore,       \* details: the value of the asyncio.Semaphore
    task,            \* details: state of each fetch_award task
    fetch_results    \* details: what each fetch_award task returned

vars == <<tool, args, pc, ret, inflight, posts, received, response,
          all_results, current_page, max_pages_int, gets, award_ids,
          semaphore, task, fetch_results>>

searchVars == <<response, all_results, current_page, max_pages_int, posts, received>>

detailVars == <<gets, award_ids, semaphore, task, fetch_results>>

NoReturn == [kind |-> "none"]

Init ==
    /\ \/ tool = "search" /\ args \in SearchArgs
       \/ tool = "details" /\ args \in DetailsArgs
    /\ pc = "start"
    /\ ret = NoReturn
    /\ inflight = {}
    /\ posts = <<>>
    /\ received = <<>>
    /\ response = NoResponse
    /\ all_results = <<>>
    /\ current_page = 0
    /\ max_pages_int = 0
    /\ gets = <<>>
    /\ award_ids = <<>>
    /\ semaphore = 0
    /\ task = <<>>
    /\ fetch_results = <<>>

\* ------------------------------------------------ search_spending_by_award

\* The except clause of lines 154-155.
search_raises(exc) ==
    /\ ret' = search_error(exc)
    /\ pc' = "done"

\* Lines 109-152 from the loop test on, with `resp` the last response, `all`
\* the accumulation and `cur` the page counter: either the next request is
\* built and issued (lines 114-138) or the combined response is returned
\* (lines 147-152; a response without page_metadata raises KeyError there).
paginate(resp, all, cur, maxp) ==
    /\ response' = resp
    /\ all_results' = all
    /\ IF LoopContinues(resp, cur, maxp)
       THEN LET next_request ==
                    AwardSearchRequest_from_params(next_request_params(args, cur + 1))
            IN  /\ current_page' = cur + 1
                /\ IF next_request.ok
                   THEN /\ posts' = Append(posts, to_api_payload(next_request))
                        /\ inflight' = {Len(posts) + 1}
                        /\ pc' = "await_next"
                        /\ ret' = ret
                   ELSE /\ search_raises(next_request.exc)
                        /\ posts' = posts
                        /\ inflight' = {}
       ELSE /\ current_page' = cur
            /\ posts' = posts
            /\ inflight' = {}
            /\ IF resp.hasMeta
               THEN /\ ret' = [kind |-> "response", results |-> all, hasMeta |-> TRUE,
                               meta |-> augmented(resp.meta, all, cur)]
                    /\ pc' = "done"
               ELSE search_raises("KeyError")

\* Lines 77-97: the request is built and the first POST issued.
search_call ==
    /\ tool = "search" /\ pc = "start"
    /\ LET request == AwardSearchRequest_from_params(search_params(args, args.page))
       IN  IF request.ok
           THEN /\ posts' = Append(posts, to_api_payload(request))
                /\ inflight' = {Len(posts) + 1}
                /\ pc' = "await_first"
                /\ ret' = ret
           ELSE /\ search_raises(request.exc)
                /\ UNCHANGED <<posts, inflight>>
    /\ UNCHANGED <<tool, args, received, response, all_results, current_page,
                   max_pages_int>>
    /\ UNCHANGED detailVars

\* client.post raises (HTTP status error or request error): lines 97 or 136,
\* then the except clause.
post_raises ==
    /\ tool = "search" /\ pc \in {"await_first", "await_next"}
    /\ received' = Append(received, [ok |-> FALSE, response |-> NoResponse])
    /\ inflight' = {}
    /\ search_raises("Exception")
    /\ UNCHANGED <<tool, args, posts, response, all_results, current_page,
                   max_pages_int>>
    /\ UNCHANGED detailVars

\* The first POST returns r: lines 97-112, then paginate.
first_page_returns(r) ==
    /\ tool = "search" /\ pc = "await_first"
    /\ received' = Append(received, [ok |-> TRUE, response |-> r])
    /\ IF lower(args.fetch_all_pages) # <<"t", "r", "u", "e">>
       THEN /\ ret' = [kind |-> "response", results |-> r.results,
                       hasMeta |-> r.hasMeta, meta |-> r.meta]
            /\ pc' = "done"
            /\ inflight' = {}
            /\ response' = r
            /\ UNCHANGED <<posts, all_results, current_page, max_pages_int>>
       ELSE IF ~int(args.max_pages).ok
       THEN /\ search_raises("ValueError")
            /\ inflight' = {}
            /\ response' = r
            /\ all_results' = r.results
            /\ current_page' = int(args.page).val
            /\ UNCHANGED <<posts, max_pages_int>>
       ELSE /\ max_pages_int' = int(args.max_pages).val
            /\ paginate(r, r.results, int(args.page).val, int(args.max_pages).val)
    /\ UNCHANGED <<tool, args>>
    /\ UNCHANGED detailVars

\* A later POST returns r: lines 136-144, then paginate.
next_page_returns(r) ==
    /\ tool = "search" /\ pc = "await_next"
    /\ received' = Append(received, [ok |-> TRUE, response |-> r])
    /\ paginate(r, extend(all_results, r.results), current_page, max_pages_int)
    /\ UNCHANGED <<tool, args, max_pages_int>>
    /\ UNCHANGED detailVars

\* ------------------------------------------------------- get_award_details

\* [aid.strip() for aid in award_id.split(",") if aid.strip()]
RECURSIVE NonEmpty(_)
NonEmpty(tokens) ==
    IF tokens = <<>> THEN <<>>
    ELSE IF strip(Head(tokens)) # <<>>
    THEN <<strip(Head(tokens))>> \o NonEmpty(Tail(tokens))
    ELSE NonEmpty(Tail(tokens))

parse_award_ids(award_id) == NonEmpty(split(award_id, ","))

too_many_off_by_one(ids) == Len(ids) > MaxAwards + 1

\* if len(award_ids) > 10
too_many(ids) == Len(ids) > MaxAwards

Min(S) == CHOOSE x \in S : \A y \in S : x <= y

concurrency_ignores_request(max_concurrent, ids) == Min({MaxAwards, Len(ids)})

\* min(max_concurrent, 10, len(award_ids))
concurrency(max_concurrent, ids) == Min({max_concurrent, MaxAwards, Len(ids)})

details_error(msg, exc) == [kind |-> "error", msg |-> msg, exc |-> exc]

\* The dict built by the loop of lines 241-245 from the results whose
\* success flag is `succ`: a later result overwrites an earlier one with
\* the same award_id.
result_dict(rs, succ) ==
    LET idx(id) == {i \in 1..Len(rs) : rs[i].success = succ /\ rs[i].award_id = id}
        last(id) == CHOOSE i \in idx(id) : \A j \in idx(id) : j <= i
    IN  [id \in {rs[i].award_id : i \in {j \in 1..Len(rs) : rs[j].success = succ}} |->
            rs[last(id)].value]

summary_counts_every_result(rs) ==
    LET success_results == result_dict(rs, TRUE)
        error_results   == result_dict(rs, FALSE)
    IN  [kind |-> "summary",
         success_count |-> Len(rs),
         error_count |-> Cardinality(DOMAIN error_results),
         results |-> success_results,
         has_errors |-> DOMAIN error_results # {},
         errors |-> error_results]

\* Lines 247-256.
summary(rs) ==
    LET success_results == result_dict(rs, TRUE)
        error_results   == result_dict(rs, FALSE)
    IN  [kind |-> "summary",
         success_count |-> Cardinality(DOMAIN success_results),
         error_count |-> Cardinality(DOMAIN error_results),
         results |-> success_results,
         has_errors |-> DOMAIN error_results # {},
         errors |-> error_results]

\* Lines 203-235 up to the first suspension: the IDs are parsed and the call
\* is rejected, or the single GET is issued, or the semaphore is made
\* (a negative value raises ValueError) and gather creates one task per ID.
details_call ==
    /\ tool = "details" /\ pc = "start"
    /\ LET ids == parse_award_ids(args.award_id)
       IN  /\ award_ids' = ids
           /\ IF ids = <<>>
              THEN /\ ret' = details_error(NO_VALID_IDS, "")
                   /\ pc' = "done"
                   /\ UNCHANGED <<gets, inflight, semaphore, task, fetch_results>>
              ELSE IF Len(ids) = 1
              THEN /\ gets' = Append(gets, ids[1])
                   /\ inflight' = {1}
                   /\ pc' = "await_single"
                   /\ UNCHANGED <<ret, semaphore, task, fetch_results>>
              ELSE IF too_many(ids)
              THEN /\ ret' = details_error(TOO_MANY_IDS, "")
                   /\ pc' = "done"
                   /\ UNCHANGED <<gets, inflight, semaphore, task, fetch_results>>
              ELSE IF concurrency(args.max_concurrent, ids) < 0
              THEN /\ ret' = details_error(DETAILS_REQUEST_ERROR,
                                            "ValueError")
                   /\ pc' = "done"
                   /\ UNCHANGED <<gets, inflight, semaphore, task, fetch_results>>
              ELSE /\ semaphore' = concurrency(args.max_concurrent, ids)
                   /\ task' = [i \in 1..Len(ids) |-> "new"]
                   /\ fetch_results' = [i \in 1..Len(ids) |->
                                          [award_id |-> ids[i], success |-> FALSE, value |-> ""]]
                   /\ pc' = "gather"
                   /\ UNCHANGED <<ret, gets, inflight>>
    /\ UNCHANGED <<tool, args>>
    /\ UNCHANGED searchVars

\* Line 213: the single GET returns.
single_get_returns(data) ==
    /\ tool = "details" /\ pc = "await_single"
    /\ inflight' = {}
    /\ ret' = [kind |-> "raw", data |-> data]
    /\ pc' = "done"
    /\ UNCHANGED <<tool, args, gets, award_ids, semaphore, task, fetch_results>>
    /\ UNCHANGED searchVars

\* Lines 214-215: the single GET raises.
single_get_raises ==
    /\ tool = "details" /\ pc = "await_single"
    /\ inflight' = {}
    /\ ret' = details_error(SINGLE_GET_ERROR, "Exception")
    /\ pc' = "done"
    /\ UNCHANGED <<tool, args, gets, award_ids, semaphore, task, fetch_results>>
    /\ UNCHANGED searchVars

\* Lines 227-229: task i enters `async with semaphore`; with a free slot it
\* takes it and issues its GET, otherwise it waits.  Tasks first run in
\* the order gather created them.
fetch_award_starts(i) ==
    /\ tool = "details" /\ pc = "gather"
    /\ i \in DOMAIN task /\ task[i] = "new"
    /\ \A j \in 1..(i - 1) : task[j] # "new"
    /\ IF semaphore > 0 /\ \A j \in DOMAIN task : task[j] # "waiting"
       THEN /\ semaphore' = semaphore - 1
            /\ task' = [task EXCEPT ![i] = "get"]
            /\ gets' = Append(gets, award_ids[i])
            /\ inflight' = inflight \cup {Len(gets) + 1}
       ELSE /\ task' = [task EXCEPT ![i] = "waiting"]
            /\ UNCHANGED <<semaphore, gets, inflight>>
    /\ UNCHANGED <<tool, args, pc, ret, award_ids, fetch_results>>
    /\ UNCHANGED searchVars

\* A waiting task is woken by a release (first come, first served), takes
\* the slot and issues its GET.
fetch_award_acquires(i) ==
    /\ tool = "details" /\ pc = "gather"
    /\ i \in DOMAIN task /\ task[i] = "waiting"
    /\ \A j \in 1..(i - 1) : task[j] # "waiting"
    /\ semaphore > 0
    /\ semaphore' = semaphore - 1
    /\ task' = [task EXCEPT ![i] = "get"]
    /\ gets' = Append(gets, award_ids[i])
    /\ inflight' = inflight \cup {Len(gets) + 1}
    /\ UNCHANGED <<tool, args, pc, ret, award_ids, fetch_results>>
    /\ UNCHANGED searchVars

\* The request number of task i's GET.
get_of(i) == CHOOSE n \in inflight : gets[n] = award_ids[i]

\* Lines 229-230: task i's GET returns, the slot is released.
fetch_award_returns(i, data) ==
    /\ tool = "details" /\ pc = "gather"
    /\ i \in DOMAIN task /\ task[i] = "get"
    /\ inflight' = inflight \ {get_of(i)}
    /\ semaphore' = semaphore + 1
    /\ task' = [task EXCEPT ![i] = "done"]
    /\ fetch_results' = [fetch_results EXCEPT ![i] =
                            [award_id |-> award_ids[i], success |-> TRUE, value |-> data]]
    /\ UNCHANGED <<tool, args, pc, ret, gets, award_ids>>
    /\ UNCHANGED searchVars

fetch_award_raises_propagates(i) ==
    /\ tool = "details" /\ pc = "gather"
    /\ i \in DOMAIN task /\ task[i] = "get"
    /\ inflight' = {}
    /\ semaphore' = semaphore + 1
    /\ task' = [task EXCEPT ![i] = "done"]
    /\ fetch_results' = [fetch_results EXCEPT ![i] =
                            [award_id |-> award_ids[i], success |-> FALSE, value |-> "error"]]
    /\ ret' = details_error(DETAILS_REQUEST_ERROR, "Exception")
    /\ pc' = "done"
    /\ UNCHANGED <<tool, args, gets, award_ids>>
    /\ UNCHANGED searchVars

\* Lines 231-232: task i's GET raises, the slot is released.
fetch_award_raises(i) ==
    /\ tool = "details" /\ pc = "gather"
    /\ i \in DOMAIN task /\ task[i] = "get"
    /\ inflight' = inflight \ {get_of(i)}
    /\ semaphore' = semaphore + 1
    /\ task' = [task EXCEPT ![i] = "done"]
    /\ fetch_results' = [fetch_results EXCEPT ![i] =
                            [award_id |-> award_ids[i], success |-> FALSE, value |-> "error"]]
    /\ UNCHANGED <<tool, args, pc, ret, gets, award_ids>>
    /\ UNCHANGED searchVars

\* Lines 235-256: every task has returned, gather returns their results in
\* the order of award_ids and the summary is built.
gather_returns ==
    /\ tool = "details" /\ pc = "gather"
    /\ \A i \in DOMAIN task : task[i] = "done"
    /\ ret' = summary(fetch_results)
    /\ pc' = "done"
    /\ UNCHANGED <<tool, args, inflight, gets, award_ids, semaphore, task, fetch_results>>
    /\ UNCHANGED searchVars

\* -------------------------------------------------------- the specification

Next ==
    \/ search_call
    \/ post_raises
    \/ \E r \in ServerResponses : first_page_returns(r)
    \/ \E r \in ServerResponses : next_page_returns(r)
    \/ details_call
    \/ \E d \in DetailPayloads : single_get_returns(d)
    \/ single_get_raises
    \/ \E i \in 1..MaxAwards : fetch_award_starts(i)
    \/ \E i \in 1..MaxAwards : fetch_award_acquires(i)
    \/ \E i \in 1..MaxAwards, d \in DetailPayloads : fetch_award_returns(i, d)
    \/ \E i \in 1..MaxAwards : fetch_award_raises(i)
    \/ gather_returns

Spec == Init /\ [][Next]_vars

\* ------------------------------------------------- GeographySearchRequest

\* str.isalpha(), str.isdigit() on ASCII text: false on the empty string.
isalpha(s) ==
    /\ s # <<>>
    /\ \A i \in 1..Len(s) :
          \E j \in 1..Len(UpperChars) : s[i] = UpperChars[j] \/ s[i] = LowerChars[j]

isdigit(s) == s # <<>> /\ \A i \in 1..Len(s) : IsDigit(s[i])

\* GeographicScope, GeographicLayer
GeographicScope == {"place_of_performance", "recipient_location"}

GeographicLayer == {"state", "county", "district", "zip"}

geo_code_ok_state_any_length(geo_layer, filter_code) ==
    CASE geo_layer = "state" -> isalpha(filter_code) \/ isdigit(filter_code)
      [] geo_layer = "county" -> Len(filter_code) = 5 /\ isdigit(filter_code)
      [] geo_layer = "zip" -> Len(filter_code) = 5 /\ isdigit(filter_code)
      [] geo_layer = "district" ->
            /\ Len(filter_code) >= 4
            /\ isalpha(SubSeq(filter_code, 1, 2))
            /\ isdigit(SubSeq(filter_code, 3, Len(filter_code)))
      [] OTHER -> TRUE

\* The test validate_geo_filters applies to one code of the layer.
geo_code_ok(geo_layer, filter_code) ==
    CASE geo_layer = "state" ->
            Len(filter_code) = 2 /\ (isalpha(filter_code) \/ isdigit(filter_code))
      [] geo_layer = "county" -> Len(filter_code) = 5 /\ isdigit(filter_code)
      [] geo_layer = "zip" -> Len(filter_code) = 5 /\ isdigit(filter_code)
      [] geo_layer = "district" ->
            /\ Len(filter_code) >= 4
            /\ isalpha(SubSeq(filter_code, 1, 2))
            /\ isdigit(SubSeq(filter_code, 3, Len(filter_code)))
      [] OTHER -> TRUE

\* GeographySearchRequest.validate_geo_filters: the loop raises ValueError
\* for the first code that fails its layer's test, naming it.
validate_geo_filters(geo_layer, v) ==
    LET badIdx == {i \in 1..Len(v) : ~geo_code_ok(geo_layer, v[i])}
    IN  IF badIdx = {} THEN [ok |-> TRUE, code |-> <<>>]
        ELSE [ok |-> FALSE, code |-> v[CHOOSE i \in badIdx : \A j \in badIdx : i <= j]]

\* cls(...) of GeographySearchRequest.from_params: the field validator runs.
GeographySearchRequest(geo_filters, checked) ==
    IF ~checked.ok
    THEN [ok |-> FALSE, exc |-> "ValidationError", code |-> checked.code,
          geo_layer_filters |-> <<>>]
    ELSE [ok |-> TRUE, exc |-> "", code |-> <<>>, geo_layer_filters |-> geo_filters]

\* GeographySearchRequest.from_params for scope, geo_layer and
\* geo_layer_filters, the other parameters at their defaults.
GeographySearchRequest_from_params(scope, geo_layer, geo_layer_filters) ==
    IF scope \notin GeographicScope \/ geo_layer \notin GeographicLayer
    THEN [ok |-> FALSE, exc |-> "ValueError", code |-> <<>>, geo_layer_filters |-> <<>>]
    ELSE GeographySearchRequest(
             comma_list(geo_layer_filters),
             validate_geo_filters(geo_layer, comma_list(geo_layer_filters)))

\* ------------------------------------------- the request-building inputs

\* Largest number of ";"-separated tokens drawn for award_amounts and
\* program_activities.
MaxTokens == 2

\* Largest number of ","-separated tokens drawn for the comma lists.
MaxCommaTokens == 3

\* Sequences of 1..n elements of S.
SeqUpTo(S, n) == UNION {[1..k -> S] : k \in 1..n}

RECURSIVE JoinWith(_, _)
JoinWith(tokens, sep) ==
    IF tokens = <<>> THEN <<>>
    ELSE IF Len(tokens) = 1 THEN tokens[1]
    ELSE tokens[1] \o <<sep>> \o JoinWith(Tail(tokens), sep)

Texts(tokens) == [i \in 1..Len(tokens) |-> tokens[i].text]

\* Number texts with the float each denotes.
NumberTexts ==
    {[text |-> <<"1", "0", "0", "0">>, value |-> [kind |-> "finite", num |-> 1000, frac |-> 0]],
     [text |-> <<"2", ".", "5", "0">>, value |-> [kind |-> "finite", num |-> 25, frac |-> 1]],
     [text |-> <<"i", "n", "f">>, value |-> [kind |-> "inf", num |-> 0, frac |-> 0]]}

\* One side of a range token: empty, or a number.
RangeSides ==
    {[text |-> <<>>, value |-> None]}
    \cup {[text |-> n.text, value |-> Some(n.value)] : n \in NumberTexts}

\* award_amounts tokens: ranges "a-b", "a-", "-b", "-" (one of them padded
\* with blanks), tokens without "-" and tokens with text that is no number.
AmountTokens ==
    {[text |-> a.text \o <<"-">> \o b.text, kind |-> "range",
      lower |-> a.value, upper |-> b.value] : a, b \in RangeSides}
    \cup {[text |-> <<" ", "1", "0", "0", "0", " ", "-", " ", "2", ".", "5", "0", " ">>, kind |-> "range",
           lower |-> Some([kind |-> "finite", num |-> 1000, frac |-> 0]),
           upper |-> Some([kind |-> "finite", num |-> 25, frac |-> 1])]}
    \cup {[text |-> t, kind |-> "skip", lower |-> None, upper |-> None] :
            t \in {<<>>, <<"1", "0", "0", "0">>}}
    \cup {[text |-> t, kind |-> "bad", lower |-> None, upper |-> None] :
            t \in {<<"x", "-", "5">>, <<"5", "-", "x">>, <<"1", "-", "2", "-", "3">>}}

\* program_activities tokens.
ActivityTokens ==
    {n \o <<"|">> \o c : n \in {<<>>, <<"E", "d", "u", "c", "a", "t", "i", "o", "n", " ", "G", "r", "a", "n", "t", "s">>, <<" ">>},
                         c \in {<<>>, <<"1", "2", "3">>, <<" ">>}}
    \cup {<<"E", "d", "u", "c", "a", "t", "i", "o", "n", " ", "G", "r", "a", "n", "t", "s">>, <<"a", "|", "b", "|", "c">>}

\* Tokens of a comma list: two values, one of them also padded, and the empty
\* token.
CommaTokens(x, y) == {x, y, <<" ">> \o x \o <<" ">>, <<>>}

\* Agency strings of 1..5 parts with their parts; the type and tier tokens are
\* valid where the grammar wants one.
AgencyNames == {<<"D", "e", "p", "a", "r", "t", "m", "e", "n", "t", " ", "o", "f", " ", "D", "e", "f", "e", "n", "s", "e">>, <<"O", "I", "G">>}

AgencyStrings ==
    {[parts |-> <<n>>] : n \in AgencyNames}
    \cup {[parts |-> <<t, n>>] : t \in AgencyType, n \in AgencyNames}
    \cup {[parts |-> <<r, tn, n>>] : r \in AgencyTier, tn \in AgencyNames, n \in AgencyNames}
    \cup {[parts |-> <<t, r, tn, n>>] :
            t \in AgencyType, r \in AgencyTier, tn \in AgencyNames, n \in AgencyNames}
    \cup {[parts |-> <<t, r, tn, n, x>>] :
            t \in AgencyType, r \in AgencyTier, tn \in AgencyNames, n \in AgencyNames,
            x \in {<<>>, <<"x">>}}
    \cup {[parts |-> <<t, n>>] : t \in {<<"A", "w", "a", "r", "d", "i", "n", "g">>, <<"t", "o", "p", "t", "i", "e", "r">>}, n \in AgencyNames}

\* Argument records of AwardSearchRequest.from_params: the defaults with one
\* parameter varied (award_type_codes and agencies together); `tokens` is
\* what the varied string was written from.
AmountArgs ==
    {[params |-> [DefaultParams EXCEPT !.award_amounts = Some(JoinWith(Texts(ts), ";"))],
      varied |-> "award_amounts", tokens |-> ts] : ts \in SeqUpTo(AmountTokens, MaxTokens)}

ActivityArgs ==
    {[params |-> [DefaultParams EXCEPT !.program_activities = Some(JoinWith(ts, ";"))],
      varied |-> "program_activities", tokens |-> ts] :
        ts \in SeqUpTo(ActivityTokens, MaxTokens)}

CommaListParams ==
    {"recipients", "keywords", "award_ids", "fields", "agencies", "award_type_codes"}

CommaListArgs ==
    {[params |->
        CASE v = "recipients" -> [DefaultParams EXCEPT !.recipients = Some(JoinWith(ts, ","))]
          [] v = "keywords" -> [DefaultParams EXCEPT !.keywords = Some(JoinWith(ts, ","))]
          [] v = "award_ids" -> [DefaultParams EXCEPT !.award_ids = Some(JoinWith(ts, ","))]
          [] v = "fields" -> [DefaultParams EXCEPT !.fields = Some(JoinWith(ts, ","))]
          [] v = "agencies" -> [DefaultParams EXCEPT !.agencies = Some(JoinWith(ts, ","))]
          [] OTHER -> [DefaultParams EXCEPT !.award_type_codes = JoinWith(ts, ",")],
      varied |-> v, tokens |-> ts] :
        v \in CommaListParams, ts \in SeqUpTo(CommaTokens(<<"A">>, <<"B">>), MaxCommaTokens)}

AgencyRequestArgs ==
    {[params |-> [DefaultParams EXCEPT
                    !.agencies = Some(JoinWith(a.parts, ":")),
                    !.award_type_codes = JoinWith(cs, ","),
                    !.sort = so],
      varied |-> "agency", parts |-> a.parts, codes |-> cs] :
        a \in AgencyStrings, cs \in SeqUpTo({<<"A">>, <<"B">>, <<"0", "2">>}, 2),
        so \in {None, Some(<<"A", "w", "a", "r", "d", " ", "A", "m", "o", "u", "n", "t">>)}}

\* Argument records of Agency.parse_agency_string: the string, possibly
\* padded with blanks, and the parts it was written from.
AgencyArgs ==
    {[agency_str |-> pad \o JoinWith(a.parts, ":") \o pad, parts |-> a.parts] :
        a \in AgencyStrings, pad \in {<<>>, <<" ">>}}

\* geo_layer_filters codes.
GeoCodes ==
    {<<"W", "A">>, <<"5", "3">>, <<"W", "1">>, <<"W">>, <<"W", "A", "S">>, <<"5", "3", "0">>, <<"5", "3", "0", "3", "3">>, <<"5", "3", "0", "3">>, <<"9", "8", "1", "0", "1", "x">>, <<"W", "A", "0", "1">>, <<"W", "A", "1">>, <<"W", "1", "0", "1">>, <<"W", "A", "0", "a">>, <<"W", "A", "0", "1", "2">>, <<"w", "a">>, <<>>}

\* Argument records of GeographySearchRequest.from_params.
GeographyArgs ==
    [scope : {"place_of_performance", "nowhere"},
     geo_layer : GeographicLayer \cup {"city"},
     codes : SeqUpTo(GeoCodes, 2)]

\* ------------------------------------------------ SpendingExplorerRequest

\* ExplorerType
ExplorerType ==
    {"budget_function", "agency", "object_class", "federal_account", "recipient",
     "award", "budget_subfunction", "program_activity"}

\* Quarter
Quarter == {<<"1">>, <<"2">>, <<"3">>, <<"4">>}

\* The first fiscal year with data.
FiscalYearFloor == 2017

is_general_without_agency(explorer_type) ==
    explorer_type \in {"budget_function", "object_class"}

\* is_general of SpendingExplorerRequest.from_params
is_general(explorer_type) ==
    explorer_type \in {"budget_function", "agency", "object_class"}

\* The body of validate_fiscal_year on year = int(v): ok = FALSE when it
\* raises, else the validated value str(year).
fiscal_year_checked(year) ==
    IF ~year.ok THEN [ok |-> FALSE, fy |-> <<>>, msg |-> "Fiscal year must be a valid year"]
    ELSE IF year.val < FiscalYearFloor
    THEN [ok |-> FALSE, fy |-> <<>>, msg |-> "Data not available prior to FY 2017"]
    ELSE [ok |-> TRUE, fy |-> str(year.val), msg |-> ""]

\* GeneralFilter.validate_fiscal_year and DetailedFilter.validate_fiscal_year
\* (the same body).
validate_fiscal_year(v) == fiscal_year_checked(int(v))

explorer_error(exc) ==
    [ok |-> FALSE, exc |-> exc, type |-> "", filters |-> [class |-> "", fy |-> <<>>,
                                                          quarter |-> None]]

\* cls(type=explorer_type, filters=filters) with the filter of class
\* `class` built from the validated fy: the union member keeps the class of
\* the instance.
explorer_request(explorer_type, class, checked, quarter) ==
    IF ~checked.ok THEN explorer_error("ValidationError")
    ELSE [ok |-> TRUE, exc |-> "", type |-> explorer_type,
          filters |-> [class |-> class, fy |-> checked.fy, quarter |-> quarter]]

\* SpendingExplorerRequest.from_params for type, fiscal_year and quarter,
\* the other parameters not given.
SpendingExplorerRequest_from_params(type, fiscal_year, quarter) ==
    IF type \notin ExplorerType THEN explorer_error("ValueError")
    ELSE IF is_general(type)
    THEN IF ~Truthy(quarter) THEN explorer_error("ValueError")
         ELSE IF quarter.val \notin Quarter THEN explorer_error("ValueError")
         ELSE explorer_request(type, "GeneralFilter", validate_fiscal_year(fiscal_year),
                               quarter)
    ELSE IF Truthy(quarter) /\ quarter.val \notin Quarter THEN explorer_error("ValueError")
    ELSE explorer_request(type, "DetailedFilter", validate_fiscal_year(fiscal_year),
                          IF Truthy(quarter) THEN quarter ELSE None)

\* fiscal_year strings: the years around the floor, and texts of other
\* lengths, padded, or no number.
FiscalYears ==
    {str(y) : y \in (FiscalYearFloor - 1)..(FiscalYearFloor + 1)}
    \cup {<<"2", "0", "1", "7", "0">>, <<"2", "1", "7">>, <<"9", "9", "9">>, <<" ", "2", "0", "1", "7">>, <<"0", "2", "0", "1", "7">>, <<"x">>, <<"2", "0", "x", "7">>, <<>>}

\* Argument records of SpendingExplorerRequest.from_params.
ExplorerArgs ==
    [type : ExplorerType \cup {"state"},
     fiscal_year : FiscalYears,
     quarter : {None, Some(<<>>), Some(<<"1">>), Some(<<"5">>)}]

\* ------------------------------------------ the request-building specification

BuildInit ==
    /\ \/ tool = "award_request" /\ args \in AmountArgs
       \/ tool = "award_request" /\ args \in ActivityArgs
       \/ tool = "award_request" /\ args \in CommaListArgs
       \/ tool = "award_request" /\ args \in AgencyRequestArgs
       \/ tool = "agency" /\ args \in AgencyArgs
       \/ tool = "geography" /\ args \in GeographyArgs
       \/ tool = "explorer" /\ args \in ExplorerArgs
    /\ pc = "start"
    /\ ret = NoReturn
    /\ inflight = {}
    /\ posts = <<>>
    /\ received = <<>>
    /\ response = NoResponse
    /\ all_results = <<>>
    /\ current_page = 0
    /\ max_pages_int = 0
    /\ gets = <<>>
    /\ award_ids = <<>>
    /\ semaphore = 0
    /\ task = <<>>
    /\ fetch_results = <<>>

\* What building a request gives: the request with its payload, or the
\* exception from_params raised.
built(request) ==
    IF request.ok
    THEN [kind |-> "request", request |-> request, payload |-> to_api_payload(request)]
    ELSE [kind |-> "error", exc |-> request.exc]

\* to_api_payload(from_params(...)), or the exception from_params raises.
award_request_built ==
    /\ tool = "award_request" /\ pc = "start"
    /\ ret' = built(AwardSearchRequest_from_params(args.params))
    /\ pc' = "done"
    /\ UNCHANGED <<tool, args, inflight>>
    /\ UNCHANGED searchVars
    /\ UNCHANGED detailVars

parsed_or_error(parsed) ==
    IF parsed.ok THEN [kind |-> "agency", agency |-> parsed.agency]
    ELSE [kind |-> "error", exc |-> parsed.exc]

\* Agency.parse_agency_string(agency_str), or the exception it raises.
agency_parsed ==
    /\ tool = "agency" /\ pc = "start"
    /\ ret' = parsed_or_error(parse_agency_string(args.agency_str))
    /\ pc' = "done"
    /\ UNCHANGED <<tool, args, inflight>>
    /\ UNCHANGED searchVars
    /\ UNCHANGED detailVars

geography_built(request) ==
    IF request.ok
    THEN [kind |-> "request", geo_layer_filters |-> request.geo_layer_filters]
    ELSE [kind |-> "error", exc |-> request.exc, code |-> request.code]

\* GeographySearchRequest.from_params(...), or the exception it raises.
geography_request_built ==
    /\ tool = "geography" /\ pc = "start"
    /\ ret' = geography_built(GeographySearchRequest_from_params(
                                  args.scope, args.geo_layer, JoinWith(args.codes, ",")))
    /\ pc' = "done"
    /\ UNCHANGED <<tool, args, inflight>>
    /\ UNCHANGED searchVars
    /\ UNCHANGED detailVars

explorer_built(request) ==
    IF request.ok
    THEN [kind |-> "request", type |-> request.type, filters |-> request.filters]
    ELSE [kind |-> "error", exc |-> request.exc]

\* SpendingExplorerRequest.from_params(...), or the exception it raises.
explorer_request_built ==
    /\ tool = "explorer" /\ pc = "start"
    /\ ret' = explorer_built(SpendingExplorerRequest_from_params(
                                 args.type, args.fiscal_year, args.quarter))
    /\ pc' = "done"
    /\ UNCHANGED <<tool, args, inflight>>
    /\ UNCHANGED searchVars
    /\ UNCHANGED detailVars

BuildNext ==
    \/ award_request_built
    \/ agency_parsed
    \/ geography_request_built
    \/ explorer_request_built

BuildSpec == BuildInit /\ [][BuildNext]_vars

\* ---------------------------------------------------------------- properties

\* The tool takes the aggregating path: fetch_all_pages.lower() == "true".
FetchAll == lower(args.fetch_all_pages) = <<"t", "r", "u", "e">>

SearchDone == tool = "search" /\ pc = "done"

StartPage == int(args.page).val

MaxPagesValue == int(args.max_pages).val

\* The results of the pages received, concatenated in the order received.
RECURSIVE PagesConcatenated(_)
PagesConcatenated(rs) ==
    IF rs = <<>> THEN <<>>
    ELSE (IF Head(rs).ok THEN Head(rs).response.results ELSE <<>>)
         \o PagesConcatenated(Tail(rs))

\* The answers seen so far are those of a server holding exactly n non-empty
\* pages: page k <= n is non-empty and reports hasNext = (k < n).
ServesPages(n) ==
    /\ received # <<>>
    /\ \A k \in 1..Len(received) :
          /\ received[k].ok
          /\ received[k].response.hasMeta
          /\ "hasNext" \in DOMAIN received[k].response.meta.bools
          /\ received[k].response.meta.bools["hasNext"] = (k < n)
          /\ (received[k].response.results # <<>>) = (k <= n)

\* C1: with a starting page >= 1 and max_pages >= 1, whatever the server
\* answers, an invocation of search_spending_by_award never has issued more
\* than max_pages POST requests.
C1_AtMostMaxPagesRequests ==
    (/\ tool = "search"
     /\ int(args.page).ok /\ StartPage >= 1
     /\ int(args.max_pages).ok /\ MaxPagesValue >= 1)
    => Len(posts) <= MaxPagesValue

\* The cap is what stopped the loop: max_pages requests, the last page still
\* reporting hasNext.
C1_Witness ==
    /\ SearchDone /\ FetchAll /\ ret.kind = "response"
    /\ int(args.max_pages).ok /\ MaxPagesValue >= 2
    /\ Len(posts) = MaxPagesValue
    /\ hasNext(response)

\* C2: when a page request fails after at least one page was fetched, the
\* tool returns a response whose results are those of the pages fetched
\* before the failure, and no error result.
C2_PartialResultsOnFailure ==
    (/\ SearchDone
     /\ Len(received) >= 2
     /\ ~received[Len(received)].ok)
    => /\ ret.kind = "response"
       /\ ret.results = PagesConcatenated(received)

\* C3: after a page with an empty results list has been received, no further
\* page request is issued.
C3_EmptyPageStopsLoop ==
    tool = "search" =>
        \A k \in 1..Len(received) :
            (received[k].ok /\ received[k].response.results = <<>>)
            => Len(posts) <= k

\* C4: with max_pages = 1 and fetch_all_pages true, a search whose request
\* was accepted has issued exactly one page request, whatever the server
\* answered (any hasNext, or a failure).
C4_MaxPagesOneFetchesOnePage ==
    (/\ tool = "search" /\ FetchAll
     /\ int(args.max_pages).ok /\ MaxPagesValue = 1
     /\ pc # "start" /\ AwardSearchRequest_from_params(search_params(args, args.page)).ok)
    => Len(posts) = 1

C4_Witness ==
    /\ SearchDone /\ FetchAll
    /\ int(args.max_pages).ok /\ MaxPagesValue = 1
    /\ received # <<>> /\ received[1].ok /\ hasNext(received[1].response)
    /\ Len(posts) = 1
    /\ ret.kind = "response"

\* C5: against a server holding n non-empty pages, a search from page 1 with
\* max_pages >= n that has returned issued exactly n requests and reports
\* pages_fetched = n.
C5_FetchesAllPagesOfServer ==
    \A n \in 1..MaxPagesArg :
        (/\ SearchDone /\ FetchAll
         /\ StartPage = 1
         /\ int(args.max_pages).ok /\ MaxPagesValue >= n
         /\ ServesPages(n))
        => /\ Len(posts) = n
           /\ ret.kind = "response"
           /\ ret.meta.ints["pages_fetched"] = n

C5_Witness ==
    /\ SearchDone /\ FetchAll /\ StartPage = 1
    /\ ServesPages(3)
    /\ Len(posts) = 3
    /\ ret.kind = "response"
    /\ ret.meta.ints["pages_fetched"] = 3

\* C6: in the aggregated response, pages_fetched is the number of page
\* requests the invocation issued, for every starting page >= 1 and every
\* max_pages >= 1.
C6_PagesFetchedCountsRequests ==
    (/\ SearchDone /\ FetchAll /\ ret.kind = "response"
     /\ StartPage >= 1 /\ MaxPagesValue >= 1)
    => ret.meta.ints["pages_fetched"] = Len(posts)

\* C7: the results of the returned response are the results of the pages
\* fetched, concatenated in fetch order and in each page's own order.
C7_ResultsAreConcatenation ==
    (SearchDone /\ ret.kind = "response")
    => ret.results = PagesConcatenated(received)

C7_Witness ==
    /\ SearchDone /\ FetchAll /\ ret.kind = "response"
    /\ Len(received) = 3
    /\ received[1].response.results = <<1>>
    /\ received[2].response.results = <<2, 1>>
    /\ received[3].response.results = <<1>>
    /\ ret.results = <<1, 2, 1, 1>>

\* C8: at most one page request is outstanding, every request but the last
\* has been answered, and every request after the first was issued after the
\* previous one was answered with hasNext = true.
C8_SequentialFetches ==
    tool = "search" =>
        /\ Cardinality(inflight) <= 1
        /\ Len(posts) = Len(received) + Cardinality(inflight)
        /\ \A k \in 2..Len(posts) :
              /\ received[k - 1].ok
              /\ hasNext(received[k - 1].response)

C8_Witness ==
    /\ tool = "search" /\ pc = "await_next"
    /\ Len(posts) = 3 /\ Len(received) = 2
    /\ inflight = {3}

\* C9: the aggregated response's page_metadata carries has_more_pages and
\* fetch_completed, and fetch_completed is true exactly when the last page
\* reported no further page or the pages fetched reached max_pages.
C9_FetchCompletedReported ==
    (SearchDone /\ FetchAll /\ ret.kind = "response")
    => /\ "has_more_pages" \in DOMAIN ret.meta.bools
       /\ "fetch_completed" \in DOMAIN ret.meta.bools
       /\ ret.meta.bools["fetch_completed"]
             = (~hasNext(response) \/ Len(received) >= MaxPagesValue)

\* C10: a get_award_details call whose award_id holds more than 10 IDs never
\* issues an HTTP request, and returns the count-exceeded error.
C10_TooManyIdsRejectedBeforeAnyRequest ==
    (tool = "details" /\ Len(parse_award_ids(args.award_id)) > 10)
    => /\ gets = <<>> /\ posts = <<>> /\ inflight = {}
       /\ pc = "done" =>
             /\ ret.kind = "error"
             /\ ret.msg = TOO_MANY_IDS

C10_Witness ==
    /\ tool = "details" /\ pc = "done"
    /\ Len(award_ids) = 11
    /\ args.max_concurrent = 10
    /\ ret.kind = "error"
    /\ gets = <<>>

\* ---- get_award_details: the fan-out

\* The IDs whose fetch has failed so far.
FailedIds == {award_ids[i] : i \in {j \in DOMAIN task :
                 task[j] = "done" /\ ~fetch_results[j].success}}

\* The number of GETs issued so far for `id`, and of its occurrences in the
\* request.
GetsOf(id) == Cardinality({n \in 1..Len(gets) : gets[n] = id})

RequestsOf(id) == Cardinality({i \in 1..Len(award_ids) : award_ids[i] = id})

DistinctIds == \A i, j \in 1..Len(award_ids) : award_ids[i] = award_ids[j] => i = j

\* min(max_concurrent, 10, number of IDs), written out.
ConcurrencyBound ==
    IF args.max_concurrent <= MaxAwards /\ args.max_concurrent <= Len(award_ids)
    THEN args.max_concurrent
    ELSE IF MaxAwards <= Len(award_ids) THEN MaxAwards ELSE Len(award_ids)

\* C11: during a multi-ID get_award_details call, in every reachable state
\* (every interleaving of fetch starts and completions), the number of
\* detail GETs outstanding is at most N = min(max_concurrent, 10, number of
\* IDs); with N below 0 the call raises before any GET, so none is
\* outstanding.
C11_OutstandingGetsBounded ==
    (tool = "details" /\ Len(award_ids) >= 2 /\ pc # "start")
        => /\ Cardinality(inflight) <= (IF ConcurrencyBound < 0 THEN 0 ELSE ConcurrencyBound)
           /\ Cardinality(inflight) = Cardinality({i \in DOMAIN task : task[i] = "get"})

C11_Witness ==
    /\ tool = "details" /\ pc = "gather"
    /\ Len(award_ids) = 3
    /\ ConcurrencyBound = 2
    /\ Cardinality(inflight) = 2
    /\ \E i \in DOMAIN task : task[i] = "waiting"

\* C12: in a multi-ID get_award_details call, once
\* the fetch of some ID has failed, no sibling is cancelled or prevented:
\* while fetches remain the call can still take a step, no ID's GET is
\* issued more often than the ID was requested, and when the tool returns
\* it returns the summary, every task finished and every requested ID's GET
\* issued exactly as often as requested.
C12_FailureDoesNotStopSiblings ==
    (tool = "details" /\ Len(award_ids) >= 2 /\ pc # "start" /\ FailedIds # {})
        => /\ \A i \in 1..Len(award_ids) : GetsOf(award_ids[i]) <= RequestsOf(award_ids[i])
           /\ pc = "gather" => ENABLED Next
           /\ pc = "done" =>
                 /\ ret.kind = "summary"
                 /\ \A i \in DOMAIN task : task[i] = "done"
                 /\ \A i \in 1..Len(award_ids) :
                       GetsOf(award_ids[i]) = RequestsOf(award_ids[i])

C12_Witness ==
    /\ tool = "details" /\ pc = "done"
    /\ Len(award_ids) = 3
    /\ ret.kind = "summary"
    /\ ~fetch_results[1].success
    /\ fetch_results[2].success /\ fetch_results[3].success
    /\ gets = <<<<"a">>, <<"b">>, <<"c">>>>

\* C13: for 2..10 distinct IDs of which the set F failed, in any completion
\* order, the summary has results keyed by exactly the IDs not in F,
\* success_count = number of IDs not in F, error_count = |F|, and an errors
\* map that is present iff F is non-empty and is keyed by exactly F.
C13_SummaryCountsAndKeys ==
    (tool = "details" /\ pc = "done" /\ ret.kind = "summary" /\ DistinctIds)
        => LET ids == {award_ids[i] : i \in 1..Len(award_ids)}
           IN  /\ DOMAIN ret.results = ids \ FailedIds
               /\ ret.success_count = Cardinality(ids \ FailedIds)
               /\ ret.error_count = Cardinality(FailedIds)
               /\ ret.has_errors <=> FailedIds # {}
               /\ DOMAIN ret.errors = FailedIds
               /\ \A i \in 1..Len(award_ids) :
                     fetch_results[i].success
                        => ret.results[award_ids[i]] = fetch_results[i].value

C13_Witness ==
    /\ tool = "details" /\ pc = "done" /\ ret.kind = "summary"
    /\ DistinctIds /\ Len(award_ids) = 3
    /\ ret.success_count = 2 /\ ret.error_count = 1
    /\ ret.has_errors
    /\ DOMAIN ret.errors = {<<"b">>}
    /\ DOMAIN ret.results = {<<"a">>, <<"c">>}

\* ---- building the award search request

RequestBuilt == tool = "award_request" /\ pc = "done" /\ ret.kind = "request"

\* The entries of a list-valued key of payload["filters"], none when the key
\* is absent.
FilterEntries(key) ==
    IF key \in DOMAIN ret.payload["filters"].val
    THEN ret.payload["filters"].val[key].val
    ELSE <<>>

\* No key of the dict d holds None.
NoNoneValue(d) == \A k \in DOMAIN d : d[k].some

\* C14: for every award-search input, to_api_payload(from_params(x)) has no
\* key whose value is None at any nesting level: not at the top, not in
\* filters, not inside the entries of filters.time_period,
\* filters.agencies, filters.award_amounts and filters.program_activities.
C14_PayloadHasNoNone ==
    RequestBuilt
        => /\ NoNoneValue(ret.payload)
           /\ NoNoneValue(ret.payload["filters"].val)
           /\ \A key \in {"time_period", "agencies", "award_amounts", "program_activities"} :
                 \A i \in 1..Len(FilterEntries(key)) : NoNoneValue(FilterEntries(key)[i])

\* ---- Agency.parse_agency_string

\* The type and tier tokens of the parts are valid where the grammar reads
\* one.
ValidAgencyTokens(parts) ==
    CASE Len(parts) = 2 -> parts[1] \in AgencyType
      [] Len(parts) = 3 -> parts[1] \in AgencyTier
      [] Len(parts) = 4 -> parts[1] \in AgencyType /\ parts[2] \in AgencyTier
      [] OTHER -> TRUE

\* The agency the grammar of the spec gives for the colon-separated parts.
GrammarAgency(parts) ==
    CASE Len(parts) = 2 ->
            [name |-> Some(parts[2]), type |-> Some(parts[1]),
             tier |-> Some(<<"t", "o", "p", "t", "i", "e", "r">>), top_tier_name |-> None]
      [] Len(parts) = 3 ->
            [name |-> Some(parts[3]), type |-> Some(<<"a", "w", "a", "r", "d", "i", "n", "g">>),
             tier |-> Some(parts[1]), top_tier_name |-> Some(parts[2])]
      [] Len(parts) = 4 ->
            [name |-> Some(parts[4]), type |-> Some(parts[1]),
             tier |-> Some(parts[2]), top_tier_name |-> Some(parts[3])]
      [] OTHER ->
            [name |-> Some(JoinWith(parts, ":")), type |-> Some(<<"a", "w", "a", "r", "d", "i", "n", "g">>),
             tier |-> Some(<<"t", "o", "p", "t", "i", "e", "r">>), top_tier_name |-> None]

C16_AgencyAndTypeCodesInPayload ==
    (tool = "award_request" /\ pc = "done" /\ args.varied = "agency"
     /\ Len(args.parts) = 4)
        => /\ ret.kind = "request"
           /\ Len(FilterEntries("agencies")) = 1
           /\ DOMAIN FilterEntries("agencies")[1] = {"name", "type", "tier", "top_tier_name"}
           /\ FilterEntries("agencies")[1]["type"] = Some(args.parts[1])
           /\ FilterEntries("agencies")[1]["tier"] = Some(args.parts[2])
           /\ FilterEntries("agencies")[1]["top_tier_name"] = Some(args.parts[3])
           /\ FilterEntries("agencies")[1]["name"] = Some(args.parts[4])
           /\ FilterEntries("award_type_codes") = args.codes

C16_Witness ==
    /\ RequestBuilt
    /\ args.varied = "agency"
    /\ args.params.agencies = Some(<<"a", "w", "a", "r", "d", "i", "n", "g", ":", "t", "o", "p", "t", "i", "e", "r", ":", "D", "e", "p", "a", "r", "t", "m", "e", "n", "t", " ", "o", "f", " ", "D", "e", "f", "e", "n", "s", "e", ":", "D", "e", "p", "a", "r", "t", "m", "e", "n", "t", " ", "o", "f", " ", "D", "e", "f", "e", "n", "s", "e">>)
    /\ args.params.award_type_codes = <<"A", ",", "B">>
    /\ FilterEntries("award_type_codes") = <<<<"A">>, <<"B">>>>
    /\ FilterEntries("agencies")[1]["name"] = Some(<<"D", "e", "p", "a", "r", "t", "m", "e", "n", "t", " ", "o", "f", " ", "D", "e", "f", "e", "n", "s", "e">>)

\* ---- award_amounts

RECURSIVE RangesWritten(_)
\* The ranges the tokens were written as, in order, tokens without "-" left
\* out.
RangesWritten(tokens) ==
    IF tokens = <<>> THEN <<>>
    ELSE (IF Head(tokens).kind = "range"
          THEN <<[lower_bound |-> Head(tokens).lower, upper_bound |-> Head(tokens).upper]>>
          ELSE <<>>) \o RangesWritten(Tail(tokens))

\* The award_amounts list of the request built, empty when it is None.
AmountsParsed ==
    IF ret.request.filters.award_amounts.some
    THEN ret.request.filters.award_amounts.val
    ELSE <<>>

\* C17: in the ";"-separated award_amounts string, each token "a-b", "a-"
\* or "-b" yields one range with lower bound the number a (None for an empty
\* left side) and upper bound the number b (None for an empty right side),
\* split at the first "-"; a token without "-" yields no range; text that is
\* no number on a side makes the construction fail.
C17_AmountRangesParsed ==
    (tool = "award_request" /\ pc = "done" /\ args.varied = "award_amounts")
        => IF \E i \in 1..Len(args.tokens) : args.tokens[i].kind = "bad"
           THEN ret.kind = "error"
           ELSE /\ ret.kind = "request"
                /\ AmountsParsed = RangesWritten(args.tokens)

C17_Witness ==
    /\ RequestBuilt
    /\ args.varied = "award_amounts"
    /\ args.params.award_amounts = Some(<<"1", "0", "0", "0", ";", "1", "0", "0", "0", "-", "2", ".", "5", "0">>)
    /\ AmountsParsed =
          <<[lower_bound |-> Some([kind |-> "finite", num |-> 1000, frac |-> 0]),
             upper_bound |-> Some([kind |-> "finite", num |-> 25, frac |-> 1])]>>

\* ---- program_activities

\* One side of a program-activity token: None when blank.
BlankIsNone(text) == IF strip(text) = <<>> THEN None ELSE Some(strip(text))

\* The token split at its first "|" into name and code, a blank side None.
ActivityWritten(token) ==
    [name |-> BlankIsNone(split1(token, "|")[1]),
     code |-> IF Len(split1(token, "|")) = 2 THEN BlankIsNone(split1(token, "|")[2])
              ELSE None]

\* C18: each ";"-separated program-activity token is split at its first "|"
\* into name and code, and a blank name or a blank code (as in
\* "Education Grants|" and "|123") is None on that side.
C18_ProgramActivityBlankIsNone ==
    (RequestBuilt /\ args.varied = "program_activities")
        => ret.request.filters.program_activities =
              Some([i \in 1..Len(args.tokens) |-> ActivityWritten(args.tokens[i])])

\* ---- comma lists

\* The list of the request built for the comma-list parameter varied: the
\* names of the agencies for `agencies`, the empty list for None.
CommaListParsed ==
    LET f == ret.request.filters
        opt(o) == IF o.some THEN o.val ELSE <<>>
    IN  CASE args.varied = "recipients" -> opt(f.recipient_search_text)
          [] args.varied = "keywords" -> opt(f.keywords)
          [] args.varied = "award_ids" -> opt(f.award_ids)
          [] args.varied = "award_type_codes" -> f.award_type_codes
          [] args.varied = "fields" -> ret.request.fields
          [] OTHER -> [i \in 1..Len(opt(f.agencies)) |-> opt(f.agencies)[i].name.val]

\* C19: each comma-separated list parameter of the award search (recipients,
\* keywords, award_ids, award_type_codes, fields, agencies) is split at ",",
\* trimmed and its empty tokens dropped: the request is built and its list
\* holds no empty string ("a,,b" parses like "a,b").
C19_CommaListsDropEmptyTokens ==
    (tool = "award_request" /\ pc = "done" /\ args.varied \in CommaListParams
     /\ NonEmpty(args.tokens) # <<>>)
        => /\ ret.kind = "request"
           /\ CommaListParsed = NonEmpty(args.tokens)

\* ---- geo_layer_filters

Letters == {UpperChars[i] : i \in 1..Len(UpperChars)} \cup {LowerChars[i] : i \in 1..Len(LowerChars)}

Digits == {DigitChars[i] : i \in 1..Len(DigitChars)}

AllIn(code, chars) == \A i \in 1..Len(code) : code[i] \in chars

\* The shape the spec gives the codes of each layer.
LayerShape(geo_layer, code) ==
    CASE geo_layer = "state" -> Len(code) = 2 /\ (AllIn(code, Letters) \/ AllIn(code, Digits))
      [] geo_layer \in {"county", "zip"} -> Len(code) = 5 /\ AllIn(code, Digits)
      [] geo_layer = "district" ->
            /\ Len(code) >= 4
            /\ code[1] \in Letters /\ code[2] \in Letters
            /\ \A i \in 3..Len(code) : code[i] \in Digits

\* The trimmed codes that violate the shape of the layer, by position.
Violating == {i \in 1..Len(args.codes) : ~LayerShape(args.geo_layer, strip(args.codes[i]))}

\* C20: with a valid scope and layer, a GeographySearchRequest is accepted
\* iff every geo_layer_filters code has the shape of its geo_layer (state:
\* 2 characters, all letters or all digits; county and zip: 5 digits;
\* district: at least 4 characters, 2 letters then digits); a violating
\* code makes the construction fail with a validation error that names the
\* first violating code.
C20_GeoFiltersMatchLayerShape ==
    (tool = "geography" /\ pc = "done"
     /\ args.scope \in GeographicScope /\ args.geo_layer \in GeographicLayer)
        => /\ ret.kind = "request" <=> Violating = {}
           /\ ret.kind = "request" =>
                 ret.geo_layer_filters = [i \in 1..Len(args.codes) |-> strip(args.codes[i])]
           /\ ret.kind # "request" =>
                 /\ ret.kind = "error" /\ ret.exc = "ValidationError"
                 /\ \E i \in Violating :
                       /\ \A j \in Violating : i <= j
                       /\ ret.code = strip(args.codes[i])

C20_Witness ==
    /\ tool = "geography" /\ pc = "done"
    /\ args.geo_layer = "state"
    /\ args.codes = <<<<"W", "A">>, <<"W", "A", "S">>>>
    /\ ret.kind = "error"
    /\ ret.code = <<"W", "A", "S">>

\* ---- boolean-like parameters of the award search

\* C21: fetch_all_pages, like subawards, is true exactly for "true", "1",
\* "yes" and "on" compared case-insensitively (the test string_to_bool
\* makes for subawards): the tool takes the all-pages path, whose response
\* carries pages_fetched, exactly for those values.
C21_BooleanLikeParameters ==
    (SearchDone /\ ret.kind = "response")
        => (string_to_bool(args.fetch_all_pages)
               <=> "pages_fetched" \in DOMAIN ret.meta.ints)

\* ---- the spending explorer request

\* The general types of the spending explorer, as the spec lists them.
GeneralTypes == {"budget_function", "agency", "object_class"}

\* fiscal_year is a number of at least the floor year.
ValidFiscalYear == int(args.fiscal_year).ok /\ int(args.fiscal_year).val >= FiscalYearFloor

\* C22: SpendingExplorerRequest.from_params fails when the type is general
\* (budget_function, agency, object_class) and no quarter is given; it
\* succeeds for a detailed type with no quarter and a valid fiscal year; the
\* filters of the request are a GeneralFilter exactly when the type is
\* general.
C22_QuarterRequiredForGeneralTypes ==
    (tool = "explorer" /\ pc = "done" /\ args.type \in ExplorerType)
        => /\ (args.type \in GeneralTypes /\ ~Truthy(args.quarter)) => ret.kind = "error"
           /\ (args.type \notin GeneralTypes /\ ~Truthy(args.quarter) /\ ValidFiscalYear)
                 => ret.kind = "request"
           /\ ret.kind = "request" =>
                 (ret.filters.class = "GeneralFilter" <=> args.type \in GeneralTypes)

C22_Witness ==
    /\ tool = "explorer" /\ pc = "done"
    /\ args.type = "recipient"
    /\ args.quarter = None
    /\ args.fiscal_year = <<"2", "0", "1", "8">>
    /\ ret.kind = "request"
    /\ ret.filters.class = "DetailedFilter"
    /\ ret.filters.quarter = None

\* C23: a spending-explorer filter, general or detailed, is accepted only
\* when fy is a 4-digit year of at least 2017; below 2017, not a number or
\* not 4 digits, the construction fails.
C23_FiscalYearFourDigitsFrom2017 ==
    (tool = "explorer" /\ pc = "done" /\ ret.kind = "request")
        => /\ int(args.fiscal_year).ok
           /\ int(args.fiscal_year).val >= FiscalYearFloor
           /\ int(args.fiscal_year).val <= 9999

\* ---- pagination bounds and the requests of one search

C26_OnlyPageChangesBetweenRequests ==
    tool = "search"
        => \A i \in 1..Len(posts) :
              /\ posts[i]["page"].val = StartPage + (i - 1)
              /\ DOMAIN posts[i] = DOMAIN posts[1]
              /\ \A k \in DOMAIN posts[1] \ {"page"} : posts[i][k] = posts[1][k]

C26_Witness ==
    /\ tool = "search"
    /\ Len(posts) = 3
    /\ args.sort = Some(<<"A", "w", "a", "r", "d", " ", "A", "m", "o", "u", "n", "t">>)
    /\ posts[3]["page"].val = 3
    /\ posts[3]["sort"] = posts[1]["sort"]
    /\ posts[3]["filters"] = posts[1]["filters"]

\* ---- the shape of failure results

\* s.startswith(prefix)
startswith(s, prefix) == Len(s) >= Len(prefix) /\ SubSeq(s, 1, Len(prefix)) = prefix

\* C25: a tool invocation returns the decoded result or a string that
\* begins with "Error:" (no failure leaves the tool as an exception): every
\* failure result of search_spending_by_award and get_award_details begins
\* with "Error:".
C25_FailuresBeginWithErrorColon ==
    (tool \in {"search", "details"} /\ pc = "done" /\ ret.kind = "error")
        => startswith(ret.msg, <<"E", "r", "r", "o", "r", ":">>)

\* ---- counts of the summary, validation before the first request, and
\* ---- responses without page_metadata

\* C28: every summary of a multi-ID get_award_details call has
\* success_count + error_count equal to the number of IDs parsed from the
\* input, and no ID in both results and errors, also when the input lists an
\* ID more than once.
C28_SummaryCountsEveryParsedId ==
    (tool = "details" /\ pc = "done" /\ ret.kind = "summary")
    => /\ ret.success_count + ret.error_count = Len(award_ids)
       /\ DOMAIN ret.results \cap DOMAIN ret.errors = {}

\* Some parameter of the search is not valid: the request model rejects the
\* arguments, or max_pages is not an integer.
InvalidSearchParameter ==
    \/ ~AwardSearchRequest_from_params(search_params(args, args.page)).ok
    \/ ~int(args.max_pages).ok

\* C29: a search_spending_by_award call with an invalid parameter (max_pages
\* included) ends with the error result and without any HTTP request issued.
C29_InvalidParameterBeforeAnyRequest ==
    (SearchDone /\ InvalidSearchParameter)
    => ret.kind = "error" /\ posts = <<>>

\* C30: when fetch_all_pages is true and every page request succeeded, the
\* tool returns a response with the accumulated results and no error result,
\* whatever the server answered, a response without page_metadata included.
C30_AllPagesSucceedGivesResponse ==
    (/\ SearchDone /\ FetchAll /\ ~InvalidSearchParameter
     /\ received # <<>>
     /\ \A k \in 1..Len(received) : received[k].ok)
    => /\ ret.kind = "response"
       /\ ret.results = PagesConcatenated(received)

\* ---- termination of the fan-out

\* The steps of one get_award_details call.
get_award_details_steps ==
    \/ details_call
    \/ \E d \in DetailPayloads : single_get_returns(d)
    \/ single_get_raises
    \/ \E i \in 1..MaxAwards : fetch_award_starts(i)
    \/ \E i \in 1..MaxAwards : fetch_award_acquires(i)
    \/ \E i \in 1..MaxAwards, d \in DetailPayloads : fetch_award_returns(i, d)
    \/ \E i \in 1..MaxAwards : fetch_award_raises(i)
    \/ gather_returns

\* The event loop runs every coroutine that is ready, and every GET that was
\* issued completes (it returns or raises): while a step of the call is
\* possible, one is eventually taken.
FairSpec == Spec /\ WF_vars(get_award_details_steps)

\* C27: for every max_concurrent (0 and negative values included), when each
\* GET issued eventually completes, no fetch task waits forever for the
\* semaphore and get_award_details eventually returns a summary or an error
\* result.
C27_GetAwardDetailsTerminates ==
    (tool = "details" /\ pc = "start") ~> (pc = "done")

====
